---- MODULE Spec2Model ----
(***************************************************************************)
(* Node teardown of k0s (package install, cleanup.go): the clean-up        *)
(* configuration, the container phases, the containerd supervisor, the     *)
(* mount reverters and the directory eraser.                               *)
(*                                                                         *)
(* Text is modelled as sequences of one-character strings, so that         *)
(* strings.Contains, strings.Compare and fmt.Sprintf are computed on the   *)
(* characters.  The state keeps short keys for paths and error texts; the  *)
(* operators look the characters up.                                       *)
(***************************************************************************)
EXTENDS Naturals, Integers, Sequences, FiniteSets, TLC

VARIABLES
    pc,          \* position of the run: which phase comes next
    socketSpec,  \* the criSocketPath argument NewCleanUpConfig was called with
    config,      \* the CleanUpConfig returned by NewCleanUpConfig
    cmd,         \* c.containerd.cmd: "unset" | "started"
    process,     \* the spawned containerd: "none" | "running" | "exited" | "killed"
    mounts,      \* the host mount table, a sequence of path keys
    fs,          \* the path keys that exist in the filesystem
    listed,      \* what the listing call of the handler that ran last returned
    ops,         \* the calls the handler that ran last made, in order
    ret,         \* the error the handler that ran last returned (<<>> is nil)
    phases,      \* the phases Teardown has attempted, in order
    msg          \* Teardown's collector: the phases that returned an error

vars == <<pc, socketSpec, config, cmd, process, mounts, fs, listed, ops, ret, phases, msg>>

(***************************************************************************)
(* Bounds                                                                  *)
(***************************************************************************)
MaxContainers == 2
MaxMounts == 3

(***************************************************************************)
(* Text                                                                    *)
(***************************************************************************)
\* strings.Contains(s, sub)
Contains(s, sub) ==
    \E i \in 0..(Len(s) - Len(sub)) : SubSeq(s, i + 1, i + Len(sub)) = sub

\* strings.Index(s, sub), 1-based; 0 when sub does not occur
Index(s, sub) ==
    IF Contains(s, sub)
    THEN CHOOSE i \in 1..(Len(s) - Len(sub) + 1) :
            /\ SubSeq(s, i, i + Len(sub) - 1) = sub
            /\ \A j \in 1..(i - 1) : SubSeq(s, j, j + Len(sub) - 1) # sub
    ELSE 0

\* strings.HasPrefix(s, p)
HasPrefix(s, p) == Len(p) <= Len(s) /\ SubSeq(s, 1, Len(p)) = p

Slash == <<"/">>

runDir == <<"/","r","u","n","/","k","0","s">>
dataDir == <<"/","v","a","r","/","l","i","b","/","k","0","s">>
KubeletPods == <<"k","u","b","e","l","e","t","/","p","o","d","s">>
RunNetns == <<"r","u","n","/","n","e","t","n","s">>
ConnRefused443 ==
    <<"4","4","3",":"," ","c","o","n","n","e","c","t",":"," ",
      "c","o","n","n","e","c","t","i","o","n"," ","r","e","f","u","s","e","d">>

\* fmt.Sprintf("%s/kubelet", c.dataDir)
KubeletDir(dir) == dir \o <<"/","k","u","b","e","l","e","t">>

(***************************************************************************)
(* The paths of the model.  Every state holds keys of PathOf.              *)
(***************************************************************************)
PathOf ==
    [ pod      |-> <<"/","v","a","r","/","l","i","b","/","k","u","b","e","l","e","t",
                     "/","p","o","d","s","/","x">>,
      other    |-> <<"/","v","a","r","/","l","i","b","/","o","t","h","e","r">>,
      netns    |-> <<"/","r","u","n","/","n","e","t","n","s","/","y">>,
      data     |-> dataDir,
      kubelet  |-> KubeletDir(dataDir),
      pod2     |-> KubeletDir(dataDir) \o <<"/","p","o","d","s","/","p">>,
      run      |-> runDir ]

\* the order in which the mount table lists its entries
MountOrder == <<"pod", "other", "netns", "data", "kubelet", "pod2">>

Mountable == {MountOrder[i] : i \in 1..Len(MountOrder)}

AllPaths == DOMAIN PathOf

\* the entries of MountOrder that are in S, in that order
RECURSIVE Listing(_, _)
Listing(S, i) ==
    IF i > Len(MountOrder) THEN <<>>
    ELSE (IF MountOrder[i] \in S THEN <<MountOrder[i]>> ELSE <<>>) \o Listing(S, i + 1)

Range(s) == {s[i] : i \in 1..Len(s)}

(***************************************************************************)
(* Errors.  An error value is the sequence of its comma-joined parts;      *)
(* <<>> is nil.  A part names the call that failed, its argument and the   *)
(* text of the underlying error.                                           *)
(***************************************************************************)
Nil == [nil |-> TRUE, parts |-> <<>>]

Err(parts) == [nil |-> FALSE, parts |-> parts]

Part(op, arg, err) == [op |-> op, arg |-> arg, err |-> err]

\* if len(msg) > 0 { return fmt.Errorf("%v", strings.Join(msg, ", ")) }; return nil
\* Joined that makes an error of an empty list of messages too
Joined_AlwaysErr(m) == Err(m)

Joined(m) == IF Len(m) > 0 THEN Err(m) ELSE Nil

Call(op, arg, res) == [op |-> op, arg |-> arg, res |-> res]

(***************************************************************************)
(* The world a handler acts on: the mount table, the filesystem, the log   *)
(* of the calls made so far and what the listing call returned.  A call of *)
(* the operating system or of the container runtime yields the set of its  *)
(* possible results, each with the world it leaves.                        *)
(***************************************************************************)
World(m, f) == [mounts |-> m, fs |-> f, calls |-> <<>>, listed |-> <<>>]

Logged(w, op, arg, res) == [w EXCEPT !.calls = Append(@, Call(op, arg, res))]

Result(w, err) == [w |-> w, err |-> err]

\* what a handler returns: the world it leaves and its error
Return(w, err) == [w |-> w, ret |-> err]

(***************************************************************************)
(* Container runtime                                                       *)
(***************************************************************************)
ContainerIds == {"c1", "c2", "c3"}

\* texts of the errors StopContainer returns
StopErrText ==
    [ refused6443 |-> <<"d","i","a","l"," ",":","6","4","4","3",":"," ","c","o","n","n","e","c","t",
                        ":"," ","c","o","n","n","e","c","t","i","o","n"," ","r","e","f","u","s","e","d">>,
      refused80   |-> <<"d","i","a","l"," ",":","8","0",":"," ","c","o","n","n","e","c","t",
                        ":"," ","c","o","n","n","e","c","t","i","o","n"," ","r","e","f","u","s","e","d">>,
      deadline    |-> <<"d","e","a","d","l","i","n","e"," ","e","x","c","e","e","d","e","d">> ]

StopResults == {"ok"} \cup DOMAIN StopErrText

RemoveResults == {"ok", "failed"}

\* the listings of at most MaxContainers containers, none listed twice
Listings ==
    {t \in UNION {[1..n -> ContainerIds] : n \in 0..MaxContainers} :
        \A i, j \in 1..Len(t) : i # j => t[i] # t[j]}

\* the error ListContainers returns when it fails
ListErr == Err(<<Part("ListContainers", "", "listFailed")>>)

\* ContainerRuntime.ListContainers(): ([]string, error)
ListContainers(w) ==
    {[w |-> Logged(w, "ListContainers", "", "listFailed"), ids |-> <<>>, err |-> ListErr]}
    \cup {[w |-> [Logged(w, "ListContainers", "", "ok") EXCEPT !.listed = t],
            ids |-> t, err |-> Nil] : t \in Listings}

\* ContainerRuntime.StopContainer(id): error
StopContainer(w, id) ==
    {Result(Logged(w, "StopContainer", id, r), r) : r \in StopResults}

\* ContainerRuntime.RemoveContainer(id): error
RemoveContainer(w, id) ==
    {Result(Logged(w, "RemoveContainer", id, r), r) : r \in RemoveResults}

(***************************************************************************)
(* stopAllContainers                                                       *)
(***************************************************************************)
\* StopOne with the ignorable text compared for equality, not searched for
StopOne_ExactText(st, container) ==
    {IF r.err # "ok"
     THEN IF StopErrText[r.err] = ConnRefused443
          THEN [w |-> r.w, msg |-> st.msg]
          ELSE [w |-> r.w, msg |-> Append(st.msg, Part("stop", container, r.err))]
     ELSE [w |-> r.w, msg |-> st.msg]
     : r \in StopContainer(st.w, container)}

\* the body of the loop over the listed containers, for one loop state
StopOne(st, container) ==
    {IF r.err # "ok"
     THEN IF Contains(StopErrText[r.err], ConnRefused443)
          THEN [w |-> r.w, msg |-> st.msg]
          ELSE [w |-> r.w, msg |-> Append(st.msg, Part("stop", container, r.err))]
     ELSE [w |-> r.w, msg |-> st.msg]
     : r \in StopContainer(st.w, container)}

\* StopLoop that leaves the loop at the first collected failure
RECURSIVE StopLoop_FailFast(_, _, _)
StopLoop_FailFast(containers, i, S) ==
    IF i > Len(containers) THEN S
    ELSE LET go == {st \in S : st.msg = <<>>}
         IN  (S \ go) \cup
             StopLoop_FailFast(containers, i + 1,
                               UNION {StopOne(st, containers[i]) : st \in go})

RECURSIVE StopLoop(_, _, _)
StopLoop(containers, i, S) ==
    IF i > Len(containers) THEN S
    ELSE StopLoop(containers, i + 1, UNION {StopOne(st, containers[i]) : st \in S})

\* stopAllContainers without the return on a failed listing
stopAllContainers_NoListCheck(w) ==
    UNION {{Return(st.w, Joined(st.msg)) :
                st \in StopLoop(l.ids, 1, {[w |-> l.w, msg |-> <<>>]})}
           : l \in ListContainers(w)}

stopAllContainers(w) ==
    UNION {IF l.err # Nil
           THEN {Return(l.w, l.err)}
           ELSE {Return(st.w, Joined(st.msg)) :
                    st \in StopLoop(l.ids, 1, {[w |-> l.w, msg |-> <<>>]})}
           : l \in ListContainers(w)}

(***************************************************************************)
(* removeAllContainers                                                     *)
(***************************************************************************)
\* RemoveOne that drops the failure
RemoveOne_DropsError(st, container) ==
    {[w |-> r.w, msg |-> st.msg] : r \in RemoveContainer(st.w, container)}

RemoveOne(st, container) ==
    {IF r.err # "ok"
     THEN [w |-> r.w, msg |-> Append(st.msg, Part("remove", container, r.err))]
     ELSE [w |-> r.w, msg |-> st.msg]
     : r \in RemoveContainer(st.w, container)}

RECURSIVE RemoveLoop(_, _, _)
RemoveLoop(containers, i, S) ==
    IF i > Len(containers) THEN S
    ELSE RemoveLoop(containers, i + 1, UNION {RemoveOne(st, containers[i]) : st \in S})

removeAllContainers(w) ==
    UNION {IF l.err # Nil
           THEN {Return(l.w, l.err)}
           ELSE {Return(st.w, Joined(st.msg)) :
                    st \in RemoveLoop(l.ids, 1, {[w |-> l.w, msg |-> <<>>]})}
           : l \in ListContainers(w)}

(***************************************************************************)
(* Mount table and filesystem (k8s.io/mount-utils, package os)             *)
(***************************************************************************)
KeyOf(path) == CHOOSE k \in DOMAIN PathOf : PathOf[k] = path

\* q is p or lies below p
Under(q, p) == PathOf[q] = PathOf[p] \/ HasPrefix(PathOf[q], PathOf[p] \o Slash)

Without(s, p) == SelectSeq(s, LAMBDA x : x # p)

MountListErr == Err(<<Part("List", "", "listFailed")>>)

\* mounter.List(): ([]MountPoint, error)
List(w) ==
    {[w |-> Logged(w, "List", "", "listFailed"), entries |-> <<>>, err |-> MountListErr],
     [w |-> [Logged(w, "List", "", "ok") EXCEPT !.listed = w.mounts],
      entries |-> w.mounts, err |-> Nil]}

\* mounter.Unmount(path): error; a path that is not mounted cannot be unmounted
Unmount(w, p) ==
    {Result(Logged(w, "Unmount", p, "failed"), "failed")}
    \cup (IF p \in Range(w.mounts)
          THEN {Result(Logged([w EXCEPT !.mounts = Without(@, p)], "Unmount", p, "ok"), "ok")}
          ELSE {})

\* os.RemoveAll(path): error; nil when everything at and below path is gone
RemoveAll(w, p) ==
    {Result(Logged([w EXCEPT !.fs = {q \in @ : ~Under(q, p)}], "RemoveAll", p, "ok"), "ok"),
     Result(Logged(w, "RemoveAll", p, "failed"), "failed")}

\* os.Remove(name): error, for a file the model does not keep in fs: whether the
\* file is there is known only by the result (a missing file is a failure)
Remove(w, name) ==
    {Result(Logged(w, "Remove", name, r), r) : r \in {"ok", "failed"}}

(***************************************************************************)
(* cleanupMount and cleanupNetworkNamespace: the same loop, over the       *)
(* entries whose path contains a fixed text                                *)
(***************************************************************************)
\* RevertOne that searches the paths for the first segment of the text only
RevertOne_FirstSegment(sub, st, v) ==
    IF Contains(PathOf[v], SubSeq(sub, 1, Index(sub, Slash) - 1))
    THEN UNION {
            LET m1 == IF u.err # "ok"
                      THEN Append(st.msg, Part("Unmount", v, u.err))
                      ELSE st.msg
            IN  {[w |-> r.w,
                  msg |-> IF r.err # "ok"
                          THEN Append(m1, Part("RemoveAll", v, r.err))
                          ELSE m1] : r \in RemoveAll(u.w, v)}
            : u \in Unmount(st.w, v)}
    ELSE {st}

\* RevertOne that removes the directory only when the unmount succeeded
RevertOne_RemoveIfUnmounted(sub, st, v) ==
    IF Contains(PathOf[v], sub)
    THEN UNION {
            IF u.err # "ok"
            THEN {[w |-> u.w, msg |-> Append(st.msg, Part("Unmount", v, u.err))]}
            ELSE {[w |-> r.w,
                   msg |-> IF r.err # "ok"
                           THEN Append(st.msg, Part("RemoveAll", v, r.err))
                           ELSE st.msg] : r \in RemoveAll(u.w, v)}
            : u \in Unmount(st.w, v)}
    ELSE {st}

\* the body of the loop, for one loop state and one entry of the listing
RevertOne(sub, st, v) ==
    IF Contains(PathOf[v], sub)
    THEN UNION {
            LET m1 == IF u.err # "ok"
                      THEN Append(st.msg, Part("Unmount", v, u.err))
                      ELSE st.msg
            IN  {[w |-> r.w,
                  msg |-> IF r.err # "ok"
                          THEN Append(m1, Part("RemoveAll", v, r.err))
                          ELSE m1] : r \in RemoveAll(u.w, v)}
            : u \in Unmount(st.w, v)}
    ELSE {st}

RECURSIVE RevertLoop(_, _, _, _)
RevertLoop(sub, procMounts, i, S) ==
    IF i > Len(procMounts) THEN S
    ELSE RevertLoop(sub, procMounts, i + 1,
                    UNION {RevertOne(sub, st, procMounts[i]) : st \in S})

RevertMatching(sub, w) ==
    UNION {IF l.err # Nil
           THEN {Return(l.w, l.err)}
           ELSE {Return(st.w, Joined(st.msg)) :
                    st \in RevertLoop(sub, l.entries, 1, {[w |-> l.w, msg |-> <<>>]})}
           : l \in List(w)}

cleanupMount(w) == RevertMatching(KubeletPods, w)

cleanupNetworkNamespace(w) == RevertMatching(RunNetns, w)

(***************************************************************************)
(* removeCNILeftovers                                                      *)
(***************************************************************************)
CniFiles == <<"calico10Conflist", "calicoKubeconfig", "kuberouter10Conflist">>

RECURSIVE CniLoop(_, _)
CniLoop(i, S) ==
    IF i > Len(CniFiles) THEN S
    ELSE CniLoop(i + 1,
            UNION {{[w |-> r.w,
                     msg |-> IF r.err # "ok"
                             THEN Append(st.msg, Part("delete", CniFiles[i], r.err))
                             ELSE st.msg] : r \in Remove(st.w, CniFiles[i])}
                   : st \in S})

\* returns nothing: its msg goes to logrus.Debugf only; the result is the world left
removeCNILeftovers(w) == {st.w : st \in CniLoop(1, {[w |-> w, msg |-> <<>>]})}

(***************************************************************************)
(* RemoveAllDirectories                                                    *)
(***************************************************************************)
\* UnmountOwn that only logs an unmount that failed
UnmountOwn_LogsOnly(c, st, v) ==
    IF PathOf[v] = KubeletDir(c.dataDir) \/ PathOf[v] = c.dataDir
    THEN {[w |-> u.w, msg |-> st.msg] : u \in Unmount(st.w, v)}
    ELSE {st}

\* the body of the loop over the mount table
UnmountOwn(c, st, v) ==
    IF PathOf[v] = KubeletDir(c.dataDir)
    THEN {[w |-> u.w,
           msg |-> IF u.err # "ok" THEN Append(st.msg, Part("Unmount", v, u.err))
                   ELSE st.msg] : u \in Unmount(st.w, v)}
    ELSE IF PathOf[v] = c.dataDir
    THEN {[w |-> u.w,
           msg |-> IF u.err # "ok" THEN Append(st.msg, Part("Unmount", v, u.err))
                   ELSE st.msg] : u \in Unmount(st.w, v)}
    ELSE {st}

RECURSIVE UnmountOwnLoop(_, _, _, _)
UnmountOwnLoop(c, procMounts, i, S) ==
    IF i > Len(procMounts) THEN S
    ELSE UnmountOwnLoop(c, procMounts, i + 1,
                        UNION {UnmountOwn(c, st, procMounts[i]) : st \in S})

\* os.RemoveAll(dir), a failure appended as "failed to delete <dir>. err: <err>"
DeleteDir(st, dir) ==
    {[w |-> r.w,
      msg |-> IF r.err # "ok" THEN Append(st.msg, Part("delete", KeyOf(dir), r.err))
              ELSE st.msg] : r \in RemoveAll(st.w, KeyOf(dir))}

\* EraseDirs that returns once the data directory could not be deleted
EraseDirs_ReturnOnDataFailure(c, S) ==
    LET afterCni  == UNION {{[w |-> w2, msg |-> st.msg] : w2 \in removeCNILeftovers(st.w)}
                            : st \in S}
        afterData == UNION {{[w |-> d.w, msg |-> d.msg, failed |-> d.msg # st.msg] :
                                d \in DeleteDir(st, c.dataDir)} : st \in afterCni}
        afterRun  == UNION {IF st.failed THEN {[w |-> st.w, msg |-> st.msg]}
                            ELSE DeleteDir([w |-> st.w, msg |-> st.msg], c.runDir)
                            : st \in afterData}
    IN  {Return(st.w, Joined(st.msg)) : st \in afterRun}

\* EraseDirs with the failures of the CNI files appended to the caller's msg
EraseDirs_CniCollected(c, S) ==
    LET afterCni  == UNION {CniLoop(1, {st}) : st \in S}
        afterData == UNION {DeleteDir(st, c.dataDir) : st \in afterCni}
        afterRun  == UNION {DeleteDir(st, c.runDir) : st \in afterData}
    IN  {Return(st.w, Joined(st.msg)) : st \in afterRun}

\* EraseDirs that deletes the data directory before the CNI files
EraseDirs_DataFirst(c, S) ==
    LET afterData == UNION {DeleteDir(st, c.dataDir) : st \in S}
        afterCni  == UNION {{[w |-> w2, msg |-> st.msg] : w2 \in removeCNILeftovers(st.w)}
                            : st \in afterData}
        afterRun  == UNION {DeleteDir(st, c.runDir) : st \in afterCni}
    IN  {Return(st.w, Joined(st.msg)) : st \in afterRun}

\* lines 245-260: what follows the loop over the mount table
EraseDirs(c, S) ==
    LET afterCni  == UNION {{[w |-> w2, msg |-> st.msg] : w2 \in removeCNILeftovers(st.w)}
                            : st \in S}
        afterData == UNION {DeleteDir(st, c.dataDir) : st \in afterCni}
        afterRun  == UNION {DeleteDir(st, c.runDir) : st \in afterData}
    IN  {Return(st.w, Joined(st.msg)) : st \in afterRun}

RemoveAllDirectories(c, w) ==
    UNION {IF l.err # Nil
           THEN {Return(l.w, l.err)}
           ELSE EraseDirs(c, UnmountOwnLoop(c, l.entries, 1, {[w |-> l.w, msg |-> <<>>]}))
           : l \in List(w)}

(***************************************************************************)
(* NewContainerRuntime, SplitRuntimeConfig, NewCleanUpConfig               *)
(***************************************************************************)
Docker == <<"d","o","c","k","e","r">>
Cri == <<"c","r","i">>
SchemeSep == <<":","/","/">>

\* a nil interface value when runtimeType is "docker", else a CRIRuntime
NewContainerRuntime(runtimeType, criSocketPath) ==
    IF runtimeType = Docker
    THEN [nil |-> TRUE, criSocketPath |-> <<>>]
    ELSE [nil |-> FALSE, criSocketPath |-> criSocketPath]

KnownRuntimeTypes == {Cri, Docker}

\* worker.SplitRuntimeConfig: "<runtimeKind>://<path>" split at the separator
SplitRuntimeConfig(rtConfig) ==
    LET i == Index(rtConfig, SchemeSep)
        kind == SubSeq(rtConfig, 1, i - 1)
        path == SubSeq(rtConfig, i + Len(SchemeSep), Len(rtConfig))
    IN  IF i = 0
        THEN [runtimeType |-> <<>>, criSocketPath |-> <<>>, err |-> "noSeparator"]
        ELSE IF kind \notin KnownRuntimeTypes
        THEN [runtimeType |-> <<>>, criSocketPath |-> <<>>, err |-> "unknownRuntime"]
        ELSE [runtimeType |-> kind, criSocketPath |-> path, err |-> "ok"]

NoContainerd == [present |-> FALSE, binPath |-> <<>>, socketPath |-> <<>>]

\* the config of the self-managed case
SelfManaged(dir) ==
    [err |-> "ok",
     containerd |-> [present |-> TRUE,
                     binPath |-> dir \o Slash
                                 \o <<"b","i","n","/","c","o","n","t","a","i","n","e","r","d">>,
                     socketPath |-> runDir \o Slash
                                 \o <<"c","o","n","t","a","i","n","e","r","d",".","s","o","c","k">>],
     containerRuntime |->
         NewContainerRuntime(Cri,
             <<"u","n","i","x",":","/","/","/">> \o runDir \o Slash
             \o <<"c","o","n","t","a","i","n","e","r","d",".","s","o","c","k">>),
     dataDir |-> dir,
     runDir |-> runDir]

\* NewCleanUpConfig that builds the containerd handle before it looks at the socket
NewCleanUpConfig_HandleAlways(dir, criSocketPath) ==
    IF criSocketPath = <<>>
    THEN SelfManaged(dir)
    ELSE LET r == SplitRuntimeConfig(criSocketPath)
         IN  IF r.err # "ok"
             THEN [err |-> r.err, containerd |-> NoContainerd,
                   containerRuntime |-> [nil |-> TRUE, criSocketPath |-> <<>>],
                   dataDir |-> <<>>, runDir |-> <<>>]
             ELSE [err |-> "ok", containerd |-> SelfManaged(dir).containerd,
                   containerRuntime |-> NewContainerRuntime(r.runtimeType, r.criSocketPath),
                   dataDir |-> dir, runDir |-> runDir]

\* NewCleanUpConfig that does not look at the error of SplitRuntimeConfig
NewCleanUpConfig_ErrIgnored(dir, criSocketPath) ==
    IF criSocketPath = <<>>
    THEN SelfManaged(dir)
    ELSE LET r == SplitRuntimeConfig(criSocketPath)
         IN  [err |-> "ok", containerd |-> NoContainerd,
              containerRuntime |-> NewContainerRuntime(r.runtimeType, r.criSocketPath),
              dataDir |-> dir, runDir |-> runDir]

\* the (*CleanUpConfig, error) pair; config.err # "ok" stands for (nil, err)
NewCleanUpConfig(dir, criSocketPath) ==
    IF criSocketPath = <<>>
    THEN SelfManaged(dir)
    ELSE LET r == SplitRuntimeConfig(criSocketPath)
         IN  IF r.err # "ok"
             THEN [err |-> r.err, containerd |-> NoContainerd,
                   containerRuntime |-> [nil |-> TRUE, criSocketPath |-> <<>>],
                   dataDir |-> <<>>, runDir |-> <<>>]
             ELSE [err |-> "ok", containerd |-> NoContainerd,
                   containerRuntime |-> NewContainerRuntime(r.runtimeType, r.criSocketPath),
                   dataDir |-> dir, runDir |-> runDir]

\* the socket specifications given to NewCleanUpConfig
SocketSpecs ==
    { <<>>,
      <<"c","r","i",":","/","/","/","r","u","n","/","c",".","s","o","c","k">>,
      <<"d","o","c","k","e","r",":","/","/","/","r","u","n","/","d",".","s","o","c","k">>,
      <<"/","r","u","n","/","c",".","s","o","c","k">>,
      <<"l","x","c",":","/","/","/","r","u","n","/","l",".","s","o","c","k">> }

(***************************************************************************)
(* startContainerd, stopContainerd                                         *)
(***************************************************************************)
\* exec.Cmd of the daemon: cmd is c.containerd.cmd, processState is
\* cmd.ProcessState (set by cmd.Wait only), process is the child itself
Supervisor(cmdv, proc) ==
    [cmd |-> cmdv, process |-> proc, processState |-> [set |-> FALSE, code |-> 0],
     calls |-> <<>>]

\* (*os.ProcessState).ExitCode(): -1 for a nil receiver
ExitCode(ps) == IF ~ps.set THEN -1 ELSE ps.code

\* cmd.Start(): error
CmdStart(sup) ==
    {[sup |-> [sup EXCEPT !.process = "running",
                          !.calls = Append(@, Call("Start", "containerd", "ok"))],
      err |-> "ok"],
     [sup |-> [sup EXCEPT !.calls = Append(@, Call("Start", "containerd", "failed"))],
      err |-> "failed"]}

\* startContainerd that records the command before it knows whether it started
startContainerd_CmdRecordedFirst(sup) ==
    {IF r.err # "ok"
     THEN [sup |-> [r.sup EXCEPT !.cmd = "started"],
           ret |-> Err(<<Part("start", "containerd", r.err)>>), panic |-> FALSE]
     ELSE [sup |-> [r.sup EXCEPT !.cmd = "started"], ret |-> Nil, panic |-> FALSE]
     : r \in CmdStart(sup)}

startContainerd(sup) ==
    {IF r.err # "ok"
     THEN [sup |-> r.sup, ret |-> Err(<<Part("start", "containerd", r.err)>>), panic |-> FALSE]
     ELSE [sup |-> [r.sup EXCEPT !.cmd = "started"], ret |-> Nil, panic |-> FALSE]
     : r \in CmdStart(sup)}

\* Process.Signal(os.Interrupt): error; a running daemon that gets the signal
\* exits or goes on running
SignalInterrupt(sup) ==
    LET log(r) == [sup EXCEPT !.calls = Append(@, Call("Signal", "interrupt", r))]
    IN  {[sup |-> log("failed"), err |-> "failed"]}
        \cup (IF sup.process = "running"
              THEN {[sup |-> log("ok"), err |-> "ok"],
                    [sup |-> [log("ok") EXCEPT !.process = "exited"], err |-> "ok"]}
              ELSE {})

\* Process.Kill(): error
Kill(sup) ==
    LET log(r) == [sup EXCEPT !.calls = Append(@, Call("Kill", "kill", r))]
    IN  {[sup |-> log("failed"), err |-> "failed"]}
        \cup (IF sup.process = "running"
              THEN {[sup |-> [log("ok") EXCEPT !.process = "killed"], err |-> "ok"]}
              ELSE {})

\* stopContainerd that gives a failed interrupt signal back to its caller
stopContainerd_SignalErrorReturned(sup) ==
    IF sup.cmd = "unset"
    THEN {[sup |-> sup, ret |-> Nil, panic |-> TRUE]}
    ELSE {[sup |-> s.sup,
           ret |-> IF s.err # "ok" THEN Err(<<Part("Signal", "interrupt", s.err)>>) ELSE Nil,
           panic |-> FALSE] : s \in SignalInterrupt(sup)}

stopContainerd(sup) ==
    IF sup.cmd = "unset"
    THEN {[sup |-> sup, ret |-> Nil, panic |-> TRUE]}
    ELSE UNION {
            IF ExitCode(s.sup.processState) # -1
            THEN {[sup |-> k.sup, ret |-> Nil, panic |-> FALSE] :
                    k \in Kill([s.sup EXCEPT !.calls =
                                    Append(@, Call("Sleep", "grace", "ok"))])}
            ELSE {[sup |-> s.sup, ret |-> Nil, panic |-> FALSE]}
            : s \in SignalInterrupt(sup)}

(***************************************************************************)
(* Teardown: the phases in order, every phase's error collected            *)
(***************************************************************************)
Phases == <<"stop", "remove", "daemon", "mounts", "netns", "dirs">>

\* the collector after a phase returned err
Collect(m, phase, err) == IF ~err.nil THEN Append(m, phase) ELSE m

\* what Teardown returns once the last phase is over
TeardownErr(m) == Joined(m)

Init ==
    /\ socketSpec \in SocketSpecs
    /\ config = NewCleanUpConfig(dataDir, socketSpec)
    /\ \E S \in SUBSET Mountable : Cardinality(S) <= MaxMounts /\ mounts = Listing(S, 1)
    /\ fs = AllPaths
    /\ pc = IF config.err # "ok" THEN "configError"
            ELSE IF config.containerd.present THEN "start" ELSE "stop"
    /\ cmd = "unset"
    /\ process = "none"
    /\ listed = <<>>
    /\ ops = <<>>
    /\ ret = Nil
    /\ phases = <<>>
    /\ msg = <<>>

\* a phase that acts on the mount table and the filesystem has run
Ran(phase, o, next) ==
    /\ mounts' = o.w.mounts
    /\ fs' = o.w.fs
    /\ listed' = o.w.listed
    /\ ops' = o.w.calls
    /\ ret' = o.ret
    /\ phases' = Append(phases, phase)
    /\ msg' = Collect(msg, phase, o.ret)
    /\ pc' = next
    /\ UNCHANGED <<socketSpec, config, cmd, process>>

\* the daemon is started before the containers can be listed
StartContainerd ==
    /\ pc = "start"
    /\ \E o \in startContainerd(Supervisor(cmd, process)) :
        /\ cmd' = o.sup.cmd
        /\ process' = o.sup.process
        /\ ops' = o.sup.calls
        /\ ret' = o.ret
        /\ pc' = IF o.ret.nil THEN "stop" ELSE "spawnFailed"
    /\ listed' = <<>>
    /\ UNCHANGED <<socketSpec, config, mounts, fs, phases, msg>>

StopAllContainers ==
    /\ pc = "stop"
    /\ ~config.containerRuntime.nil
    /\ \E o \in stopAllContainers(World(mounts, fs)) : Ran("stop", o, "remove")

\* a method call on the nil ContainerRuntime
NilRuntimePanic ==
    /\ pc = "stop"
    /\ config.containerRuntime.nil
    /\ pc' = "panic"
    /\ phases' = Append(phases, "stop")
    /\ ops' = <<>>
    /\ listed' = <<>>
    /\ UNCHANGED <<socketSpec, config, cmd, process, mounts, fs, ret, msg>>

RemoveAllContainers ==
    /\ pc = "remove"
    /\ \E o \in removeAllContainers(World(mounts, fs)) : Ran("remove", o, "daemon")

StopContainerd ==
    /\ pc = "daemon"
    /\ config.containerd.present
    /\ \E o \in stopContainerd(Supervisor(cmd, process)) :
        /\ cmd' = o.sup.cmd
        /\ process' = o.sup.process
        /\ ops' = o.sup.calls
        /\ ret' = o.ret
        /\ pc' = IF o.panic THEN "panic" ELSE "mounts"
    /\ listed' = <<>>
    /\ phases' = Append(phases, "daemon")
    /\ UNCHANGED <<socketSpec, config, mounts, fs, msg>>

SkipContainerd ==
    /\ pc = "daemon"
    /\ ~config.containerd.present
    /\ pc' = "mounts"
    /\ UNCHANGED <<socketSpec, config, cmd, process, mounts, fs, listed, ops, ret, phases, msg>>

CleanupMount ==
    /\ pc = "mounts"
    /\ \E o \in cleanupMount(World(mounts, fs)) : Ran("mounts", o, "netns")

CleanupNetworkNamespace ==
    /\ pc = "netns"
    /\ \E o \in cleanupNetworkNamespace(World(mounts, fs)) : Ran("netns", o, "dirs")

EraseDirectories ==
    /\ pc = "dirs"
    /\ \E o \in RemoveAllDirectories(config, World(mounts, fs)) : Ran("dirs", o, "done")

Next ==
    \/ StartContainerd
    \/ StopAllContainers
    \/ NilRuntimePanic
    \/ RemoveAllContainers
    \/ StopContainerd
    \/ SkipContainerd
    \/ CleanupMount
    \/ CleanupNetworkNamespace
    \/ EraseDirectories

Spec == Init /\ [][Next]_vars

(***************************************************************************)
(* Reading the state a handler leaves                                      *)
(***************************************************************************)
CallsOf(op) == SelectSeq(ops, LAMBDA c : c.op = op)

ArgsOf(s) == [i \in 1..Len(s) |-> s[i].arg]

ListedOk == Len(ops) > 0 /\ ops[1].op \in {"ListContainers", "List"} /\ ops[1].res = "ok"

ListedFailed ==
    Len(ops) > 0 /\ ops[1].op \in {"ListContainers", "List"} /\ ops[1].res = "listFailed"

\* stopAllContainers, removeAllContainers ran last
AfterStop == pc = "remove"
AfterRemove == pc = "daemon"

Ignorable(res) == res # "ok" /\ Contains(StopErrText[res], ConnRefused443)

(***************************************************************************)
(* C2: when ListContainers fails, stopAllContainers and removeAllContainers *)
(* return that very listing failure and call neither StopContainer nor     *)
(* RemoveContainer.                                                        *)
(***************************************************************************)
C2_ListFailureReturned ==
    ((AfterStop \/ AfterRemove) /\ ListedFailed) =>
        /\ ret = ListErr
        /\ CallsOf("StopContainer") = <<>>
        /\ CallsOf("RemoveContainer") = <<>>
        /\ Len(ops) = 1

C2_Witness ==
    /\ AfterRemove
    /\ ListedFailed
    /\ ret = ListErr
    /\ msg = <<"stop", "remove">>

(***************************************************************************)
(* C3: a StopContainer failure whose text contains                         *)
(* "443: connect: connection refused" is no part of the error              *)
(* stopAllContainers returns; when every stop succeeds or fails with such  *)
(* a text, stopAllContainers returns nil.                                  *)
(***************************************************************************)
C3_ConnectionRefusedIgnored ==
    (AfterStop /\ ListedOk) =>
        /\ \A i \in 1..Len(ops) :
              (ops[i].op = "StopContainer" /\ Ignorable(ops[i].res)) =>
                  \A j \in 1..Len(ret.parts) : ret.parts[j].arg # ops[i].arg
        /\ \A j \in 1..Len(ret.parts) : ~Contains(StopErrText[ret.parts[j].err], ConnRefused443)
        /\ (\A i \in 2..Len(ops) : ops[i].res = "ok" \/ Ignorable(ops[i].res)) => ret = Nil

C3_Witness ==
    /\ AfterStop
    /\ ListedOk
    /\ \E i \in 1..Len(ops) : ops[i].op = "StopContainer" /\ ops[i].res = "refused6443"
    /\ ret = Nil

(***************************************************************************)
(* C4: when the listing succeeds, stopAllContainers calls StopContainer    *)
(* once for every listed container, in the order of the listing, whatever  *)
(* the earlier stops returned; the error it returns has one part for each  *)
(* failed stop whose text is not the ignorable one, in that order, and is  *)
(* nil only when there is none.                                            *)
(***************************************************************************)
CollectedStops ==
    SelectSeq(CallsOf("StopContainer"), LAMBDA c : c.res # "ok" /\ ~Ignorable(c.res))

C4_EveryContainerStopped ==
    (AfterStop /\ ListedOk) =>
        /\ Len(ops) = Len(listed) + 1
        /\ ArgsOf(CallsOf("StopContainer")) = listed
        /\ ret.parts = [i \in 1..Len(CollectedStops) |->
                            Part("stop", CollectedStops[i].arg, CollectedStops[i].res)]
        /\ ret.nil <=> CollectedStops = <<>>

C4_Witness ==
    /\ AfterStop
    /\ ListedOk
    /\ Len(listed) = 2
    /\ ops[2].res = "deadline"
    /\ ops[3].res = "refused80"
    /\ Len(ret.parts) = 2

(***************************************************************************)
(* C5: when the listing succeeds, removeAllContainers calls                *)
(* RemoveContainer once for every listed container whatever the earlier    *)
(* removals returned; it returns nil exactly when every removal succeeded, *)
(* and otherwise an error with one part for each failed removal.           *)
(***************************************************************************)
FailedRemovals == SelectSeq(CallsOf("RemoveContainer"), LAMBDA c : c.res # "ok")

C5_EveryContainerRemoved ==
    (AfterRemove /\ ListedOk) =>
        /\ Len(ops) = Len(listed) + 1
        /\ ArgsOf(CallsOf("RemoveContainer")) = listed
        /\ ret.nil <=> FailedRemovals = <<>>
        /\ ret.parts = [i \in 1..Len(FailedRemovals) |->
                            Part("remove", FailedRemovals[i].arg, FailedRemovals[i].res)]

C5_Witness ==
    /\ AfterRemove
    /\ ListedOk
    /\ Len(listed) = 2
    /\ ops[2].res = "failed"
    /\ ops[3].res = "ok"
    /\ Len(ret.parts) = 1

\* cleanupMount, cleanupNetworkNamespace ran last
AfterCleanupMount == pc = "netns"
AfterCleanupNetworkNamespace == pc = "dirs"

\* the entries of a listing whose path contains the text
Matching(sub, entries) == SelectSeq(entries, LAMBDA v : Contains(PathOf[v], sub))

Succeeded(op) == {c.arg : c \in {d \in Range(ops) : d.op = op /\ d.res = "ok"}}

(***************************************************************************)
(* C6: a run of cleanupMount ("kubelet/pods") or cleanupNetworkNamespace   *)
(* ("run/netns") that read the mount table calls Unmount and RemoveAll on  *)
(* exactly the entries whose path contains the text; every other entry of  *)
(* the mount table stays mounted and no other directory is removed, in     *)
(* every run.                                                              *)
(***************************************************************************)
C6_OnlyMatchingReverted ==
    [][(pc \in {"mounts", "netns"}) =>
        LET sub == IF pc = "mounts" THEN KubeletPods ELSE RunNetns
            match == Matching(sub, mounts)
        IN  /\ ListedOk' =>
                /\ ArgsOf(CallsOf("Unmount")') = match
                /\ ArgsOf(CallsOf("RemoveAll")') = match
                /\ mounts' = SelectSeq(mounts, LAMBDA v : v \notin Succeeded("Unmount")')
                /\ fs' = fs \ Succeeded("RemoveAll")'
            /\ \A v \in Range(mounts) : ~Contains(PathOf[v], sub) => v \in Range(mounts')
            /\ \A q \in fs : ~Contains(PathOf[q], sub) => q \in fs'
      ]_vars

C6_Witness ==
    /\ AfterCleanupMount
    /\ listed = <<"pod", "other", "netns">>
    /\ ops = <<Call("List", "", "ok"), Call("Unmount", "pod", "ok"),
               Call("RemoveAll", "pod", "ok")>>
    /\ mounts = <<"other", "netns">>
    /\ fs = AllPaths \ {"pod"}

(***************************************************************************)
(* C7: a run of cleanupMount or cleanupNetworkNamespace that read the      *)
(* mount table calls, for every matching entry in turn, Unmount and then   *)
(* RemoveAll, whatever the other call and the calls for earlier entries    *)
(* returned; it returns nil exactly when none of these calls failed, and   *)
(* otherwise an error with one part for each failed call.                  *)
(***************************************************************************)
FailedCalls == SelectSeq(Tail(ops), LAMBDA c : c.res # "ok")

C7_UnmountAndRemoveIndependent ==
    ((AfterCleanupMount \/ AfterCleanupNetworkNamespace) /\ ListedOk) =>
        LET sub == IF AfterCleanupMount THEN KubeletPods ELSE RunNetns
            match == Matching(sub, listed)
        IN  /\ Len(ops) = 1 + 2 * Len(match)
            /\ \A j \in 1..Len(match) :
                  /\ ops[2 * j].op = "Unmount" /\ ops[2 * j].arg = match[j]
                  /\ ops[2 * j + 1].op = "RemoveAll" /\ ops[2 * j + 1].arg = match[j]
            /\ ret.nil <=> FailedCalls = <<>>
            /\ ret.parts = [i \in 1..Len(FailedCalls) |->
                              Part(FailedCalls[i].op, FailedCalls[i].arg, FailedCalls[i].res)]

C7_Witness ==
    /\ AfterCleanupMount
    /\ ListedOk
    /\ Matching(KubeletPods, listed) = <<"pod", "pod2">>
    /\ ops[2].res = "failed"
    /\ ops[3].res = "failed"
    /\ ops[4].res = "ok"
    /\ ops[5].res = "failed"
    /\ Len(ret.parts) = 3

\* RemoveAllDirectories ran last, and with it Teardown is over
AfterRemoveAllDirectories == pc = "done"

\* the parts of the returned error that report a directory that was not deleted
DeleteParts == SelectSeq(ret.parts, LAMBDA p : p.op = "delete")

FailedDeletions == SelectSeq(CallsOf("RemoveAll"), LAMBDA c : c.res # "ok")

\* the calls of RemoveAllDirectories whose failure it collects
CollectedFailures ==
    SelectSeq(ops, LAMBDA c : c.op \in {"Unmount", "RemoveAll"} /\ c.res # "ok")

(***************************************************************************)
(* C8: when RemoveAllDirectories gets as far as deleting the data          *)
(* directory it also tries to delete the run directory, whatever the first *)
(* deletion returned; the returned error has a "failed to delete" part for *)
(* exactly the directories whose deletion failed.  When the data directory *)
(* fails and the run directory succeeds, the data directory is the only    *)
(* directory the error names (and its only part when no unmount failed).   *)
(***************************************************************************)
C8_BothDirectoriesDeleted ==
    AfterRemoveAllDirectories =>
        /\ ArgsOf(CallsOf("RemoveAll")) \in {<<>>, <<"data", "run">>}
        /\ ListedOk => ArgsOf(CallsOf("RemoveAll")) = <<"data", "run">>
        /\ DeleteParts = [i \in 1..Len(FailedDeletions) |->
                            Part("delete", FailedDeletions[i].arg, FailedDeletions[i].res)]
        /\ (ArgsOf(FailedDeletions) = <<"data">>) =>
              /\ DeleteParts = <<Part("delete", "data", "failed")>>
              /\ \A i \in 1..Len(ret.parts) : ret.parts[i].arg # "run"
              /\ (\A c \in Range(CallsOf("Unmount")) : c.res = "ok") =>
                    ret = Err(<<Part("delete", "data", "failed")>>)

C8_Witness ==
    /\ AfterRemoveAllDirectories
    /\ CallsOf("RemoveAll") = <<Call("RemoveAll", "data", "failed"),
                                Call("RemoveAll", "run", "ok")>>
    /\ ret = Err(<<Part("delete", "data", "failed")>>)

(***************************************************************************)
(* C9: every run of RemoveAllDirectories tries to delete the data          *)
(* directory and the run directory, whatever failed before: reading the    *)
(* mount table, an unmount, the removal of the CNI files.                  *)
(***************************************************************************)
C9_DeletionsAlwaysAttempted ==
    AfterRemoveAllDirectories => ArgsOf(CallsOf("RemoveAll")) = <<"data", "run">>

(***************************************************************************)
(* C10: removeCNILeftovers calls os.Remove on all three CNI files whatever *)
(* the calls return, and no result of these calls reaches the caller: the  *)
(* error of RemoveAllDirectories is made of the failed unmounts and the    *)
(* failed directory deletions alone, and Teardown collects a failure of    *)
(* the phase only when there is one of those.                              *)
(***************************************************************************)
C10_CniFailuresNeverReturned ==
    (AfterRemoveAllDirectories /\ ListedOk) =>
        /\ ArgsOf(CallsOf("Remove")) = CniFiles
        /\ \A i \in 1..Len(ret.parts) : ret.parts[i].arg \notin Range(CniFiles)
        /\ ret.parts = [i \in 1..Len(CollectedFailures) |->
                          Part(IF CollectedFailures[i].op = "Unmount" THEN "Unmount" ELSE "delete",
                               CollectedFailures[i].arg, CollectedFailures[i].res)]
        /\ ret.nil <=> CollectedFailures = <<>>
        /\ ("dirs" \in Range(msg)) <=> CollectedFailures # <<>>

C10_Witness ==
    /\ AfterRemoveAllDirectories
    /\ CallsOf("Remove") = [i \in 1..Len(CniFiles) |-> Call("Remove", CniFiles[i], "failed")]
    /\ ret = Nil
    /\ TeardownErr(msg) = Nil

(***************************************************************************)
(* C1: when Teardown returns, every phase has been attempted, in order     *)
(* (the daemon phase when there is a daemon handle), whatever the earlier  *)
(* phases returned; the last phase has gone through its steps (the CNI     *)
(* files, the data directory, the run directory), since only the           *)
(* per-container calls after a failed container listing may be skipped;    *)
(* and the phase counts as failed exactly when it returned an error.       *)
(***************************************************************************)
C1_EveryPhaseAttempted ==
    pc = "done" =>
        /\ phases = SelectSeq(Phases, LAMBDA ph : ph # "daemon" \/ config.containerd.present)
        /\ ("dirs" \in Range(msg)) <=> ~ret.nil
        /\ TeardownErr(msg).nil <=> msg = <<>>
        /\ ArgsOf(CallsOf("Remove")) = CniFiles
        /\ ArgsOf(CallsOf("RemoveAll")) = <<"data", "run">>

\* stopContainerd ran last and returned
AfterStopContainerd == pc = "mounts" /\ config.containerd.present

(***************************************************************************)
(* C11: stopContainerd sends the interrupt signal first and, after the     *)
(* grace period, the kill signal whenever the daemon has not exited: a run *)
(* of stopContainerd without a kill leaves a daemon that has exited.       *)
(***************************************************************************)
C11_KillUnlessExited ==
    AfterStopContainerd =>
        /\ ops[1].op = "Signal"
        /\ \A i \in 1..Len(ops) : ops[i].op = "Kill" => (i > 2 /\ ops[i - 1].op = "Sleep")
        /\ CallsOf("Kill") = <<>> => process = "exited"

(***************************************************************************)
(* C12: stopContainerd, called with the process handle that a successful   *)
(* start recorded, always returns: it does not panic and gives no error to *)
(* Teardown, whether the interrupt signal could be sent or not.            *)
(***************************************************************************)
C12_StopAlwaysCompletes ==
    (cmd = "started" /\ "daemon" \in Range(phases)) =>
        /\ pc # "panic"
        /\ "daemon" \notin Range(msg)
        /\ AfterStopContainerd => (ret = Nil /\ Len(ops) >= 1 /\ ops[1].op = "Signal")

C12_Witness ==
    /\ AfterStopContainerd
    /\ ops[1] = Call("Signal", "interrupt", "failed")
    /\ ret = Nil
    /\ process = "running"

\* NewCleanUpConfig returned a configuration for a socket address that was given
ExternalSocket == socketSpec # <<>> /\ config.err = "ok"

(***************************************************************************)
(* C13: in a teardown whose configuration was built for a given socket     *)
(* address there is no daemon handle, no daemon is started or signalled,   *)
(* the daemon phase is left out, the run does not crash, and the run ends  *)
(* with the mount phases and the directory phase attempted.                *)
(***************************************************************************)
C13_NoDaemonPhaseWithoutHandle ==
    ExternalSocket =>
        /\ ~config.containerd.present
        /\ cmd = "unset"
        /\ process = "none"
        /\ "daemon" \notin Range(phases)
        /\ \A i \in 1..Len(ops) : ops[i].op \notin {"Start", "Signal", "Kill"}
        /\ pc # "panic"
        /\ pc = "done" => phases = <<"stop", "remove", "mounts", "netns", "dirs">>

(***************************************************************************)
(* C14: a configuration returned by NewCleanUpConfig has the containerd    *)
(* handle exactly when the socket specification was empty; with the empty  *)
(* specification the runtime is the CRI runtime at                         *)
(* unix:///<runDir>/containerd.sock and the handle holds the binary and    *)
(* socket paths.                                                           *)
(***************************************************************************)
ContainerdSock == <<"c","o","n","t","a","i","n","e","r","d",".","s","o","c","k">>

C14_HandleIffEmptySocket ==
    config.err = "ok" =>
        /\ config.containerd.present <=> socketSpec = <<>>
        /\ socketSpec = <<>> =>
              /\ ~config.containerRuntime.nil
              /\ config.containerRuntime.criSocketPath =
                    <<"u","n","i","x",":","/","/","/">> \o runDir \o Slash \o ContainerdSock
              /\ config.containerd.socketPath = runDir \o Slash \o ContainerdSock
              /\ HasPrefix(config.containerd.binPath, dataDir \o Slash)
        /\ socketSpec # <<>> => config.containerd = NoContainerd

C14_Witness ==
    /\ pc = "remove"
    /\ ExternalSocket
    /\ ~config.containerd.present
    /\ ~config.containerRuntime.nil

(***************************************************************************)
(* C15: no configuration is returned with a nil container runtime, so no   *)
(* ListContainers, StopContainer or RemoveContainer call is made on nil:   *)
(* for the "docker" kind the construction fails or marks the runtime.      *)
(***************************************************************************)
C15_NoNilRuntime ==
    /\ config.err = "ok" => ~config.containerRuntime.nil
    /\ pc # "panic"

(***************************************************************************)
(* C16: a socket specification that is not empty and has no "://" or an    *)
(* unknown runtime kind makes NewCleanUpConfig return an error and no      *)
(* configuration; nothing has been stopped, removed, signalled, unmounted  *)
(* or deleted then, and nothing is afterwards.                             *)
(***************************************************************************)
Malformed(s) ==
    /\ s # <<>>
    /\ \/ ~Contains(s, SchemeSep)
       \/ \A k \in {Cri, Docker} : ~HasPrefix(s, k \o SchemeSep)

C16_MalformedSocketFails ==
    Malformed(socketSpec) =>
        /\ config.err # "ok"
        /\ pc = "configError"
        /\ ~config.containerd.present
        /\ config.dataDir = <<>>
        /\ ops = <<>>
        /\ phases = <<>>
        /\ cmd = "unset"
        /\ process = "none"
        /\ fs = AllPaths

C16_Witness ==
    /\ Malformed(socketSpec)
    /\ ~Contains(socketSpec, SchemeSep)
    /\ config.err = "noSeparator"
    /\ pc = "configError"

(***************************************************************************)
(* C17: a phase that finds the container list empty, or no entry of the    *)
(* mount table with its text, or (the last phase) no entry that is the     *)
(* data directory or its kubelet directory and every CNI file and both     *)
(* directories deleted, returns nil and adds nothing to the failures       *)
(* Teardown has collected; a Teardown that has collected nothing returns   *)
(* no error.  So a run in which every phase is of this kind ends with no   *)
(* error.                                                                  *)
(***************************************************************************)
\* the phase taken by the step found nothing to do, or did it without a failure
NothingToStop ==
    /\ pc \in {"stop", "remove"}
    /\ ListedOk'
    /\ listed' = <<>>

NothingToRevert ==
    /\ pc \in {"mounts", "netns"}
    /\ ListedOk'
    /\ Matching(IF pc = "mounts" THEN KubeletPods ELSE RunNetns, listed') = <<>>

AllDeleted ==
    /\ pc = "dirs"
    /\ ListedOk'
    /\ \A i \in 1..Len(listed') :
          PathOf[listed'[i]] \notin {config.dataDir, KubeletDir(config.dataDir)}
    /\ CallsOf("Remove")' = [i \in 1..Len(CniFiles) |-> Call("Remove", CniFiles[i], "ok")]
    /\ CallsOf("RemoveAll")' = <<Call("RemoveAll", "data", "ok"), Call("RemoveAll", "run", "ok")>>

C17_CleanRunReturnsNoError ==
    /\ [][(NothingToStop \/ NothingToRevert \/ AllDeleted) =>
            /\ ret' = Nil
            /\ msg' = msg
            /\ pc' # "panic"
         ]_vars
    /\ [](msg = <<>> => TeardownErr(msg) = Nil)
    /\ [](pc \in {"start", "stop"} => msg = <<>>)

C17_Witness ==
    /\ pc = "done"
    /\ phases \in {Phases, SelectSeq(Phases, LAMBDA ph : ph # "daemon")}
    /\ listed = <<>>
    /\ ops = <<Call("List", "", "ok")>>
              \o [i \in 1..Len(CniFiles) |-> Call("Remove", CniFiles[i], "ok")]
              \o <<Call("RemoveAll", "data", "ok"), Call("RemoveAll", "run", "ok")>>
    /\ fs \cap {"data", "run"} = {}
    /\ msg = <<>>
    /\ TeardownErr(msg) = Nil

(***************************************************************************)
(* C18: the supervisor of containerd goes from not started to running to   *)
(* stopped and in no other way.  startContainerd records the command, and  *)
(* the supervisor is running, only when cmd.Start() succeeded; when it     *)
(* failed, startContainerd returns an error, records nothing and the       *)
(* supervisor stays not started.  stopContainerd begins with the interrupt *)
(* signal and runs only when the supervisor is running, never with no      *)
(* command recorded.                                                       *)
(***************************************************************************)
SupervisorState ==
    IF cmd = "unset" THEN "NotStarted"
    ELSE IF "daemon" \in Range(phases) THEN "Stopped"
    ELSE "Running"

Own(entries) ==
    SelectSeq(entries, LAMBDA v : PathOf[v] \in {config.dataDir, KubeletDir(config.dataDir)})

\* every call of the first kind comes before every call of the second kind
Before(first(_), second(_)) ==
    \A i, j \in 1..Len(ops) : (first(ops[i]) /\ second(ops[j])) => i < j

IsUnmount(c) == c.op = "Unmount"
IsCniRemove(c) == c.op = "Remove"
IsDeleteData(c) == c.op = "RemoveAll" /\ c.arg = "data"
IsDeleteRun(c) == c.op = "RemoveAll" /\ c.arg = "run"

(***************************************************************************)
(* C19: RemoveAllDirectories deletes the data directory only after it has  *)
(* called Unmount on every listed entry whose path is the data directory   *)
(* or its kubelet directory and after the three CNI files have been        *)
(* removed, and deletes the run directory only after the data directory;   *)
(* it unmounts no entry with another path.                                 *)
(***************************************************************************)
C19_StepsInOrder ==
    AfterRemoveAllDirectories =>
        /\ Before(IsUnmount, IsCniRemove)
        /\ Before(IsUnmount, IsDeleteData)
        /\ Before(IsCniRemove, IsDeleteData)
        /\ Before(IsDeleteData, IsDeleteRun)
        /\ (\E i \in 1..Len(ops) : IsDeleteData(ops[i])) =>
              /\ ArgsOf(CallsOf("Unmount")) = Own(listed)
              /\ ArgsOf(CallsOf("Remove")) = CniFiles
        /\ (\E i \in 1..Len(ops) : IsDeleteRun(ops[i])) =>
              \E j \in 1..Len(ops) : IsDeleteData(ops[j])
        /\ \A i \in 1..Len(ops) : IsUnmount(ops[i]) => ops[i].arg \in Range(Own(listed))
        /\ \A i \in 1..Len(listed) :
              listed[i] \notin Range(Own(listed)) => listed[i] \in Range(mounts)

C19_Witness ==
    /\ AfterRemoveAllDirectories
    /\ listed = <<"other", "data", "kubelet">>
    /\ ArgsOf(ops) = <<"", "data", "kubelet">> \o CniFiles \o <<"data", "run">>
    /\ mounts = <<"other">>

(***************************************************************************)
(* C20: RemoveAllDirectories returns nil exactly when it read the mount    *)
(* table, every Unmount of the data directory and of its kubelet directory *)
(* succeeded and both directories were deleted; every failed Unmount is a  *)
(* part of the returned error, which is therefore not nil when an unmount  *)
(* failed and both deletions succeeded.                                    *)
(***************************************************************************)
FailedUnmounts == SelectSeq(CallsOf("Unmount"), LAMBDA c : c.res # "ok")

C20_UnmountFailureReturned ==
    AfterRemoveAllDirectories =>
        /\ ret.nil <=>
              /\ ListedOk
              /\ FailedUnmounts = <<>>
              /\ CallsOf("RemoveAll") = <<Call("RemoveAll", "data", "ok"),
                                          Call("RemoveAll", "run", "ok")>>
        /\ SelectSeq(ret.parts, LAMBDA p : p.op = "Unmount") =
              [i \in 1..Len(FailedUnmounts) |->
                  Part("Unmount", FailedUnmounts[i].arg, FailedUnmounts[i].res)]
        /\ ListedOk => Len(ret.parts) = Len(FailedUnmounts) + Len(FailedDeletions)

C20_Witness ==
    /\ AfterRemoveAllDirectories
    /\ Own(listed) = <<"data", "kubelet">>
    /\ ArgsOf(FailedUnmounts) = <<"kubelet">>
    /\ FailedDeletions = <<>>
    /\ ret = Err(<<Part("Unmount", "kubelet", "failed")>>)
    /\ "dirs" \in Range(msg)

====
